---- MODULE Spec2Model ----
(***************************************************************************)
(* Model of src/EmptyViewer/Main_EmptyViewer.cpp: a one-ray-per-pixel      *)
(* ray caster (Ray, Sphere, Plane, Camera, Scene), its render pass, the    *)
(* resize callback and the display loop of main.                           *)
(*                                                                         *)
(* Numbers of C++ type float are modelled as binary fixed-point numbers:   *)
(* the integer n stands for the real n / 2^FracBits.  Every arithmetic     *)
(* operation is computed on magnitudes and truncated toward zero, the way  *)
(* a float operation is computed and rounded; a quotient too large to be   *)
(* represented saturates to FInf, as a float overflow gives infinity.      *)
(***************************************************************************)
EXTENDS Integers, Sequences, FiniteSets, TLC

(***************************************************************************)
(* float                                                                   *)
(***************************************************************************)
FracBits == 21

RECURSIVE Pow2(_)
Pow2(n) == IF n = 0 THEN 1 ELSE 2 * Pow2(n - 1)

FOne == Pow2(FracBits)
HiUnit == Pow2(FracBits - (FracBits \div 2))
LoUnit == Pow2(FracBits \div 2)
\* largest representable value: what an overflowing float operation yields
FInf == (Pow2(30) - 1) * 2 + 1
\* the integer part a representable value may have
IntLimit == FInf \div FOne

FAbs(a) == IF a < 0 THEN -a ELSE a
Sgn(a) == IF a < 0 THEN -1 ELSE 1

\* int -> float conversion, float(n) and the implicit one in (i + 0.5f)
IntToF(n) == n * FOne

\* a decimal literal num/den, e.g. 0.001f is FLit(1, 1000)
FLit(num, den) == (num * FOne) \div den

\* product of two non-negative values, floor(a*b / 2^FracBits), computed
\* in parts so that no intermediate exceeds the machine word
MulMag(a, b) ==
    LET ah == a \div HiUnit
        al == a % HiUnit
        bh == b \div LoUnit
        bl == b % LoUnit
    IN  ah * bh
          + (ah * bl * (HiUnit \div LoUnit) + al * bh + (al * bl) \div LoUnit)
              \div HiUnit

FMul(a, b) == Sgn(a) * Sgn(b) * MulMag(FAbs(a), FAbs(b))

\* the fraction bits of rem / b (rem < b), by binary long division
RECURSIVE FracDiv(_, _, _, _)
FracDiv(rem, b, bits, acc) ==
    IF bits = 0 THEN acc
    ELSE IF 2 * rem >= b
         THEN FracDiv(2 * rem - b, b, bits - 1, 2 * acc + 1)
         ELSE FracDiv(2 * rem, b, bits - 1, 2 * acc)

DivMag(a, b) ==
    LET q == a \div b
    IN  IF q >= IntLimit THEN FInf
        ELSE q * FOne + FracDiv(a % b, b, FracBits, 0)

\* a / b for b # 0
FDiv(a, b) == Sgn(a) * Sgn(b) * DivMag(FAbs(a), FAbs(b))

\* sqrtf(x) for x >= 0: the largest r with r*r <= x, found bit by bit
RECURSIVE SqrtBits(_, _, _)
SqrtBits(x, r, p) ==
    IF p = 0 THEN r
    ELSE IF MulMag(r + p, r + p) <= x
         THEN SqrtBits(x, r + p, p \div 2)
         ELSE SqrtBits(x, r, p \div 2)

FSqrt(x) == SqrtBits(x, 0, Pow2(FracBits \div 2 + 15))

(***************************************************************************)
(* glm::vec3                                                               *)
(***************************************************************************)
vec3(a, b, c) == [x |-> a, y |-> b, z |-> c]

VSub(p, q) == vec3(p.x - q.x, p.y - q.y, p.z - q.z)

dot(p, q) == FMul(p.x, q.x) + FMul(p.y, q.y) + FMul(p.z, q.z)

\* glm::normalize(v) is v * inversesqrt(dot(v, v)); v is not the zero vector
normalize(v) ==
    LET inv == FDiv(FOne, FSqrt(dot(v, v)))
    IN  vec3(FMul(v.x, inv), FMul(v.y, inv), FMul(v.z, inv))

(***************************************************************************)
(* Ray, Sphere, Plane, Camera, Scene                                       *)
(***************************************************************************)
Ray(o, d) == [origin |-> o, direction |-> normalize(d)]

Sphere(c, r) == [kind |-> "Sphere", center |-> c, radius |-> r]

Plane(yVal) == [kind |-> "Plane", y |-> yVal]

Camera(e, l_, r_, b_, t_, d_) ==
    [eye |-> e, l |-> l_, r |-> r_, b |-> b_, t |-> t_, d |-> d_]

\* the value -1.0f every intersect returns for "no hit"
NoHit == -FOne

\* 0.001f
Epsilon == FLit(1, 1000)

\* 1e-6f
ParallelEps == FLit(1, 1000000)

\* SphereIntersect with c_val = dot(oc, oc) + radius * radius
SphereIntersectPlusRadius(s, ray) ==
    LET oc == VSub(ray.origin, s.center)
        b == FMul(IntToF(2), dot(ray.direction, oc))
        c_val == dot(oc, oc) + FMul(s.radius, s.radius)
        disc == FMul(b, b) - FMul(IntToF(4), c_val)
    IN  IF disc < 0 THEN NoHit
        ELSE LET sqrtDisc == FSqrt(disc)
                 t1 == FMul(-b - sqrtDisc, FLit(1, 2))
                 t2 == FMul(-b + sqrtDisc, FLit(1, 2))
             IN  IF t1 > Epsilon THEN t1
                 ELSE IF t2 > Epsilon THEN t2
                 ELSE NoHit

\* SphereIntersect with the roots compared against 0.0f instead of 0.001f
SphereIntersectNoEpsilon(s, ray) ==
    LET oc == VSub(ray.origin, s.center)
        b == FMul(IntToF(2), dot(ray.direction, oc))
        c_val == dot(oc, oc) - FMul(s.radius, s.radius)
        disc == FMul(b, b) - FMul(IntToF(4), c_val)
    IN  IF disc < 0 THEN NoHit
        ELSE LET sqrtDisc == FSqrt(disc)
                 t1 == FMul(-b - sqrtDisc, FLit(1, 2))
                 t2 == FMul(-b + sqrtDisc, FLit(1, 2))
             IN  IF t1 > 0 THEN t1
                 ELSE IF t2 > 0 THEN t2
                 ELSE NoHit

SphereIntersect(s, ray) ==
    LET oc == VSub(ray.origin, s.center)
        b == FMul(IntToF(2), dot(ray.direction, oc))
        c_val == dot(oc, oc) - FMul(s.radius, s.radius)
        disc == FMul(b, b) - FMul(IntToF(4), c_val)
    IN  IF disc < 0 THEN NoHit
        ELSE LET sqrtDisc == FSqrt(disc)
                 t1 == FMul(-b - sqrtDisc, FLit(1, 2))
                 t2 == FMul(-b + sqrtDisc, FLit(1, 2))
             IN  IF t1 > Epsilon THEN t1
                 ELSE IF t2 > Epsilon THEN t2
                 ELSE NoHit

\* PlaneTrace with fabs left out of the parallel test
PlaneTraceNoFabs(p, ray) ==
    IF ray.direction.y < ParallelEps
    THEN [value |-> NoHit, divisors |-> << >>]
    ELSE LET t == FDiv(p.y - ray.origin.y, ray.direction.y)
         IN  [value |-> IF t > Epsilon THEN t ELSE NoHit,
              divisors |-> <<ray.direction.y>>]

\* PlaneTrace with the parallel test direction.y == 0.0f
PlaneTraceExactZero(p, ray) ==
    IF ray.direction.y = 0
    THEN [value |-> NoHit, divisors |-> << >>]
    ELSE LET t == FDiv(p.y - ray.origin.y, ray.direction.y)
         IN  [value |-> IF t > Epsilon THEN t ELSE NoHit,
              divisors |-> <<ray.direction.y>>]

\* Plane::intersect with the divisors of the divisions it performs
PlaneTrace(p, ray) ==
    IF FAbs(ray.direction.y) < ParallelEps
    THEN [value |-> NoHit, divisors |-> << >>]
    ELSE LET t == FDiv(p.y - ray.origin.y, ray.direction.y)
         IN  [value |-> IF t > Epsilon THEN t ELSE NoHit,
              divisors |-> <<ray.direction.y>>]

PlaneIntersect(p, ray) == PlaneTrace(p, ray).value

\* the virtual call obj->intersect(ray)
intersect(obj, ray) ==
    IF obj.kind = "Sphere" THEN SphereIntersect(obj, ray)
    ELSE PlaneIntersect(obj, ray)

generateRay(cam, i, j, nx_, ny_) ==
    LET u == cam.l + FMul(cam.r - cam.l,
                          FDiv(IntToF(i) + FLit(1, 2), IntToF(nx_)))
        v == cam.b + FMul(cam.t - cam.b,
                          FDiv(IntToF(j) + FLit(1, 2), IntToF(ny_)))
        imagePoint == vec3(u, v, -cam.d)
    IN  Ray(cam.eye, VSub(imagePoint, cam.eye))

\* the loop of Scene::findNearest from object k on, t_nearest so far
RECURSIVE findNearestFrom(_, _, _, _)
findNearestFrom(objects, ray, k, t_nearest) ==
    IF k > Len(objects) THEN t_nearest
    ELSE LET t == intersect(objects[k], ray)
         IN  IF t > 0 /\ (t_nearest < 0 \/ t < t_nearest)
             THEN findNearestFrom(objects, ray, k + 1, t)
             ELSE findNearestFrom(objects, ray, k + 1, t_nearest)

\* findNearest with the comparison turned round: t > t_nearest
RECURSIVE farthestFrom(_, _, _, _)
farthestFrom(objects, ray, k, t_nearest) ==
    IF k > Len(objects) THEN t_nearest
    ELSE LET t == intersect(objects[k], ray)
         IN  IF t > 0 /\ (t_nearest < 0 \/ t > t_nearest)
             THEN farthestFrom(objects, ray, k + 1, t)
             ELSE farthestFrom(objects, ray, k + 1, t_nearest)

findNearestFarthest(objects, ray) == farthestFrom(objects, ray, 1, NoHit)

findNearest(objects, ray) == findNearestFrom(objects, ray, 1, NoHit)

(***************************************************************************)
(* main: the camera and the scene built before the first render            *)
(***************************************************************************)
camera ==
    Camera(vec3(0, 0, 0), -FLit(1, 10), FLit(1, 10), -FLit(1, 10),
           FLit(1, 10), FLit(1, 10))

scene ==
    << Plane(-IntToF(2)),
       Sphere(vec3(-IntToF(4), 0, -IntToF(7)), IntToF(1)),
       Sphere(vec3(0, 0, -IntToF(7)), IntToF(2)),
       Sphere(vec3(IntToF(4), 0, -IntToF(7)), IntToF(1)) >>

(***************************************************************************)
(* Bounds                                                                  *)
(***************************************************************************)
\* The render resolution.  The source fixes nx = ny = 512 and starts with
\* Width = Height = 512; the model scales that one number down so that the
\* buffer of nx*ny*3 floats can be enumerated.
Res == 2

\* Framebuffer sizes the window system reports: 0..MaxDim in each direction
\* (0 is a minimised window).  MaxDim > Res, so windows larger than the
\* rendered image occur.
MaxDim == 3

Dim == 0..MaxDim

(***************************************************************************)
(* State                                                                   *)
(***************************************************************************)
VARIABLES
    Width,        \* int Width
    Height,       \* int Height
    OutputImage,  \* std::vector<float> OutputImage, entry k at position k+1
    writes,       \* how often the last render pass stored into each entry
    pass,         \* the extents the last render pass ran over
    hist,         \* Width, Height, OutputImage after the last three
                  \* resize_callback calls, oldest first
    pc,           \* where main is
    arg,          \* the arguments of a call of a pure function under test
    ret           \* what that call returned

vars == <<Width, Height, OutputImage, writes, pass, hist, pc, arg, ret>>

(***************************************************************************)
(* std::vector<float>                                                      *)
(***************************************************************************)
Zeros(n) == [k \in 1..n |-> 0]

VecClear(v) == << >>

\* resize(n): truncates, or appends value-initialised (0.0f) elements
VecResize(v, n) ==
    IF Len(v) >= n THEN SubSeq(v, 1, n) ELSE v \o Zeros(n - Len(v))

\* reserve(n) changes the capacity only: size and elements stay
VecReserve(v, n) == v

\* v[index] = val, index counted from 0
VecStore(v, index, val) == [v EXCEPT ![index + 1] = val]

(***************************************************************************)
(* render                                                                  *)
(***************************************************************************)
nx == Res
ny == Res

\* camera->generateRay(i, j, nx, ny) and scene->findNearest(ray) of every
\* pixel of the pass: the two calls read only the immutable camera and
\* scene, so their values are tabulated once
rayT ==
    [j \in 0..(ny - 1) |->
        [i \in 0..(nx - 1) |->
            findNearest(scene, generateRay(camera, i, j, nx, ny))]]

\* PixelIndex with row and column exchanged
PixelIndexTransposed(i, j) == (i * ny + j) * 3

\* int index = (j * nx + i) * 3
PixelIndex(i, j) == (j * nx + i) * 3

\* if (t > 0.0f) 1.0f (white) else 0.0f (black), for each of the 3 channels
PixelColor(t) == IF t > 0 THEN FOne ELSE 0

\* the three stores of one pixel; st = [img, cnt]
StorePixel(st, index, c) ==
    [img |-> VecStore(VecStore(VecStore(st.img, index, c), index + 1, c),
                      index + 2, c),
     cnt |-> [st.cnt EXCEPT ![index + 1] = @ + 1, ![index + 2] = @ + 1,
                            ![index + 3] = @ + 1]]

\* the nested loops of render from pixel (i, j) on
RECURSIVE renderFrom(_, _, _)
renderFrom(st, j, i) ==
    IF j >= ny THEN st
    ELSE IF i >= nx THEN renderFrom(st, j + 1, 0)
    ELSE LET t == rayT[j][i]
             index == PixelIndex(i, j)
         IN  renderFrom(StorePixel(st, index, PixelColor(t)), j, i + 1)

\* render without clear(): the pass is appended to what the buffer held
renderAppending(image) ==
    LET fresh == renderFrom([img |-> Zeros(nx * ny * 3),
                             cnt |-> Zeros(nx * ny * 3)], 0, 0)
    IN  [img |-> image \o fresh.img, cnt |-> Zeros(Len(image)) \o fresh.cnt]

\* render(): OutputImage.clear(); OutputImage.resize(nx*ny*3); the loops
render(image) ==
    LET sized == VecResize(VecClear(image), nx * ny * 3)
    IN  renderFrom([img |-> sized, cnt |-> [k \in DOMAIN sized |-> 0]], 0, 0)

\* what a render pass ran over: loop extents and the resolution it handed
\* to generateRay
renderPass ==
    [cols |-> nx, rows |-> ny, imageWidth |-> nx, imageHeight |-> ny]

(***************************************************************************)
(* resize_callback and main                                                *)
(***************************************************************************)
NoCall == "none"

Snapshot(w, h, img) == [Width |-> w, Height |-> h, OutputImage |-> img]

Remember(h, snap) ==
    IF Len(h) < 3 THEN Append(h, snap) ELSE Append(Tail(h), snap)

\* the global initialisers; main has built camera and scene
Init ==
    /\ Width = Res
    /\ Height = Res
    /\ OutputImage = << >>
    /\ writes = << >>
    /\ pass = NoCall
    /\ hist = << >>
    /\ pc = "main"
    /\ arg = NoCall
    /\ ret = NoCall

resize_callback(nw, nh) ==
    LET st == render(VecReserve(OutputImage, nw * nh * 3))
    IN  /\ Width' = nw
        /\ Height' = nh
        /\ OutputImage' = st.img
        /\ writes' = st.cnt
        /\ pass' = renderPass
        /\ hist' = Remember(hist, Snapshot(nw, nh, st.img))

\* main: resize_callback(NULL, Width, Height) before the loop
Startup ==
    /\ pc = "main"
    /\ resize_callback(Width, Height)
    /\ pc' = "draw"
    /\ UNCHANGED <<arg, ret>>

\* the number of floats glDrawPixels(Width, Height, GL_RGB, GL_FLOAT, p)
\* reads from p
DrawPixelsReads == Width * Height * 3

\* glClear; glDrawPixels; glfwSwapBuffers
Present ==
    /\ pc = "draw"
    /\ pc' = "poll"
    /\ UNCHANGED <<Width, Height, OutputImage, writes, pass, hist, arg, ret>>

\* glfwPollEvents delivers a framebuffer-size event
ResizeEvent ==
    /\ pc = "poll"
    /\ \E nw \in Dim, nh \in Dim : resize_callback(nw, nh)
    /\ UNCHANGED <<pc, arg, ret>>

\* glfwPollEvents returns; Escape or Q closes the window
EndPoll ==
    /\ pc = "poll"
    /\ \E close \in BOOLEAN : pc' = IF close THEN "done" ELSE "draw"
    /\ UNCHANGED <<Width, Height, OutputImage, writes, pass, hist, arg, ret>>

Next == Startup \/ Present \/ ResizeEvent \/ EndPoll

Spec == Init /\ [][Next]_vars

(***************************************************************************)
(* The pure functions, each called once on arguments drawn from a bounded  *)
(* set.  The viewer's variables keep their initial values.                 *)
(***************************************************************************)
ViewerAtRest ==
    /\ Width = Res
    /\ Height = Res
    /\ OutputImage = << >>
    /\ writes = << >>
    /\ pass = NoCall
    /\ hist = << >>

ViewerUnchanged == UNCHANGED <<Width, Height, OutputImage, writes, pass, hist>>

(* Sphere::intersect *)
SphereCenters == {vec3(0, 0, 0), vec3(0, 0, -IntToF(7)), vec3(IntToF(1), 0, -IntToF(3))}

SphereRadii == {IntToF(1), IntToF(2)}

\* ray origins: outside, on the surface of the unit sphere at 0, just
\* inside it (0.0005 below the surface), at its centre
SphereOrigins ==
    {vec3(0, 0, 0), vec3(0, 0, IntToF(1)), vec3(0, 0, IntToF(1) - FLit(1, 2000)),
     vec3(0, 0, IntToF(3)), vec3(0, IntToF(1), -IntToF(3))}

\* directions as handed to the Ray constructor, which normalizes them
RawDirections ==
    {vec3(0, 0, -IntToF(1)), vec3(0, 0, IntToF(1)), vec3(0, IntToF(1), 0),
     vec3(0, IntToF(1), -IntToF(3)), vec3(IntToF(1), IntToF(1), -IntToF(1)),
     vec3(IntToF(1), 0, -IntToF(3))}

InitSphere ==
    /\ ViewerAtRest
    /\ pc = "call"
    /\ arg \in [s : {Sphere(c, r) : c \in SphereCenters, r \in SphereRadii},
                ray : {Ray(o, d) : o \in SphereOrigins, d \in RawDirections}]
    /\ ret = NoCall

CallSphereIntersect ==
    /\ pc = "call"
    /\ ret' = SphereIntersect(arg.s, arg.ray)
    /\ pc' = "return"
    /\ UNCHANGED arg
    /\ ViewerUnchanged

SpecSphere == InitSphere /\ [][CallSphereIntersect]_vars

(* Plane::intersect *)
PlaneHeights == {-IntToF(2), 0, IntToF(1)}

PlaneOriginYs == {-IntToF(3), -IntToF(2), 0, IntToF(1)}

\* vertical components of the raw direction: zero, the two smallest
\* magnitudes of the number format, the threshold 1e-6 itself, ordinary ones
VerticalComponents ==
    {0, 1, -1, ParallelEps, -ParallelEps, ParallelEps + 1, FLit(1, 1000),
     -FLit(1, 1000), IntToF(1), -IntToF(1)}

PlaneRays ==
    {Ray(vec3(0, oy, 0), vec3(IntToF(1), dy, dz)) :
        oy \in PlaneOriginYs, dy \in VerticalComponents, dz \in {0, -IntToF(1)}}

InitPlane ==
    /\ ViewerAtRest
    /\ pc = "call"
    /\ arg \in [p : {Plane(h) : h \in PlaneHeights}, ray : PlaneRays]
    /\ ret = NoCall

CallPlaneIntersect ==
    /\ pc = "call"
    /\ ret' = PlaneTrace(arg.p, arg.ray)
    /\ pc' = "return"
    /\ UNCHANGED arg
    /\ ViewerUnchanged

SpecPlane == InitPlane /\ [][CallPlaneIntersect]_vars

(* Scene::findNearest *)
MaxObjects == 3

SurfacePool ==
    {Plane(-IntToF(2)), Sphere(vec3(0, 0, -IntToF(7)), IntToF(2)),
     Sphere(vec3(0, 0, -IntToF(4)), IntToF(1))}

Scenes == UNION {[1..n -> SurfacePool] : n \in 0..MaxObjects}

SceneRays ==
    {Ray(vec3(0, 0, 0), d) :
        d \in {vec3(0, 0, -IntToF(1)), vec3(0, -IntToF(1), -IntToF(1)),
               vec3(0, IntToF(1), 0), vec3(0, -IntToF(1), -IntToF(8))}}

InitScene ==
    /\ ViewerAtRest
    /\ pc = "call"
    /\ arg \in [objects : Scenes, ray : SceneRays]
    /\ ret = NoCall

CallFindNearest ==
    /\ pc = "call"
    /\ ret' = findNearest(arg.objects, arg.ray)
    /\ pc' = "return"
    /\ UNCHANGED arg
    /\ ViewerUnchanged

SpecScene == InitScene /\ [][CallFindNearest]_vars

(* One pixel of the default scene at the full resolution of the source *)
FullRes == 512

ProbeCoords == {0, 1, 64, 128, 192, 255, 256, 320, 384, 448, 510, 511}

InitProbe ==
    /\ ViewerAtRest
    /\ pc = "call"
    /\ arg \in [i : ProbeCoords, j : ProbeCoords]
    /\ ret = NoCall

\* the body of render's loops for pixel (arg.i, arg.j), with every
\* surface's own answer kept beside the scene's
CallPixel ==
    /\ pc = "call"
    /\ LET ray == generateRay(camera, arg.i, arg.j, FullRes, FullRes)
           t == findNearest(scene, ray)
       IN  ret' = [ts |-> [k \in DOMAIN scene |-> intersect(scene[k], ray)],
                   t |-> t,
                   color |-> PixelColor(t)]
    /\ pc' = "return"
    /\ UNCHANGED arg
    /\ ViewerUnchanged

SpecProbe == InitProbe /\ [][CallPixel]_vars

(***************************************************************************)
(* Properties                                                              *)
(***************************************************************************)
\* main has run resize_callback at least once
Rendered == pc \in {"draw", "poll", "done"}

\* C1: after any resize event resize_callback(nw, nh) the render pass ran
\* over exactly nw columns and nh rows, generated its rays with
\* imageWidth = nw and imageHeight = nh, and left nw*nh*3 buffer entries.
C1_ResizeRendersNewResolution ==
    Rendered =>
        /\ pass.cols = Width
        /\ pass.rows = Height
        /\ pass.imageWidth = Width
        /\ pass.imageHeight = Height
        /\ Len(OutputImage) = Width * Height * 3

\* the hit test of pixel (i, j) of a pass over nx columns and ny rows
ExpectedHit ==
    [j \in 0..(ny - 1) |->
        [i \in 0..(nx - 1) |->
            findNearest(scene, generateRay(camera, i, j, nx, ny)) > 0]]

\* C2: when a render pass over W columns and H rows is complete, the three
\* entries of pixel (i, j) at (j*W+i)*3, +1, +2 are all 1 if
\* findNearest(generateRay(i, j, W, H)) > 0 and all 0 otherwise, every entry
\* was written exactly once, and every entry is 0 or 1.
C2_RenderWritesEveryPixelOnce ==
    Rendered =>
        LET W == pass.cols
            H == pass.rows
        IN  /\ pass.imageWidth = W /\ pass.imageHeight = H
            /\ W = nx /\ H = ny
            /\ Len(OutputImage) = W * H * 3
            /\ \A j \in 0..(H - 1), i \in 0..(W - 1), ch \in 0..2 :
                  OutputImage[(j * W + i) * 3 + ch + 1]
                      = IF ExpectedHit[j][i] THEN FOne ELSE 0
            /\ DOMAIN writes = DOMAIN OutputImage
            /\ \A k \in DOMAIN OutputImage :
                  writes[k] = 1 /\ OutputImage[k] \in {0, FOne}

\* a pass that followed a resize to another size and drew both colours
C2_Witness ==
    /\ pc = "poll"
    /\ Width # pass.cols
    /\ \E k \in DOMAIN OutputImage : OutputImage[k] = FOne
    /\ \E k \in DOMAIN OutputImage : OutputImage[k] = 0

Range(f) == {f[k] : k \in DOMAIN f}

Perms(n) ==
    {f \in [1..n -> 1..n] : \A a, b \in 1..n : a # b => f[a] # f[b]}

PositiveHits(objects, ray) ==
    {t \in {intersect(o, ray) : o \in Range(objects)} : t > 0}

\* C3: findNearest returns the minimum of the surfaces' t > 0, -1 when
\* there is none (the empty scene included), whatever the insertion order.
C3_FindNearestIsMinPositive ==
    pc = "return" =>
        LET P == PositiveHits(arg.objects, arg.ray)
            n == Len(arg.objects)
        IN  /\ P = {} => ret = NoHit
            /\ P # {} => ret \in P /\ \A t \in P : ret <= t
            /\ \A f \in Perms(n) :
                  findNearest([k \in 1..n |-> arg.objects[f[k]]], arg.ray) = ret

\* three surfaces, all hit, the nearest one inserted last
C3_Witness ==
    /\ pc = "return"
    /\ Len(arg.objects) = 3
    /\ Cardinality(PositiveHits(arg.objects, arg.ray)) = 3
    /\ ret = intersect(arg.objects[3], arg.ray)

\* C4 as claimed: in the default scene at 512x512 the ray of pixel
\* (col 0, row 0) misses every surface, findNearest is not > 0 and the
\* pixel is black.
C4_CornerMissesEverything ==
    (pc = "return" /\ arg.i = 0 /\ arg.j = 0) =>
        /\ \A k \in DOMAIN scene : ret.ts[k] = NoHit
        /\ ~(ret.t > 0)
        /\ ret.color = 0

\* C4 amended: the ray of pixel (0, 0) points below the horizon; it misses
\* the three spheres and hits the plane y = -2, findNearest returns the
\* plane's distance (> 0) and the pixel is white.
C4_CornerHitsPlaneOnly ==
    (pc = "return" /\ arg.i = 0 /\ arg.j = 0) =>
        /\ scene[1] = Plane(-IntToF(2))
        /\ ret.ts[1] > 0
        /\ \A k \in DOMAIN scene : k # 1 => ret.ts[k] = NoHit
        /\ ret.t = ret.ts[1]
        /\ ret.color = FOne

C4_Witness == pc = "return" /\ arg.i = 0 /\ arg.j = 0 /\ ret.t > IntToF(3)

\* C5: in the default scene at 512x512 the ray of the centre pixel
\* (256, 256) hits the sphere at (0,0,-7) of radius 2, that sphere's
\* distance is what findNearest returns, and the pixel is white.
C5_CentreHitsMiddleSphere ==
    (pc = "return" /\ arg.i = 256 /\ arg.j = 256) =>
        /\ scene[3] = Sphere(vec3(0, 0, -IntToF(7)), IntToF(2))
        /\ ret.ts[3] > 0
        /\ ret.t = ret.ts[3]
        /\ ret.color = FOne

C5_Witness ==
    /\ pc = "return" /\ arg.i = 256 /\ arg.j = 256
    /\ ret.t > IntToF(4) /\ ret.t < IntToF(6)

\* C6: with b = 2*direction.(origin-center), c = |origin-center|^2 - r^2,
\* disc = b^2 - 4c, Sphere::intersect returns -1 when disc < 0; otherwise,
\* with t1 = (-b - sqrt(disc))/2 <= t2 = (-b + sqrt(disc))/2, it returns t1
\* if t1 > 0.001, else t2 if t2 > 0.001, else -1.  So the result is -1 or
\* the smallest root above 0.001, never a value in (0, 0.001].
C6_SphereIntersectRoots ==
    pc = "return" =>
        LET oc == VSub(arg.ray.origin, arg.s.center)
            b == FMul(IntToF(2), dot(arg.ray.direction, oc))
            c == dot(oc, oc) - FMul(arg.s.radius, arg.s.radius)
            disc == FMul(b, b) - FMul(IntToF(4), c)
            t1 == FMul(-b - FSqrt(disc), FLit(1, 2))
            t2 == FMul(-b + FSqrt(disc), FLit(1, 2))
        IN  /\ disc < 0 => ret = NoHit
            /\ disc >= 0 =>
                  /\ t1 <= t2
                  /\ ret = IF t1 > Epsilon THEN t1
                           ELSE IF t2 > Epsilon THEN t2 ELSE NoHit
                  /\ ret # NoHit =>
                        /\ ret \in {t1, t2}
                        /\ \A t \in {t1, t2} : t > Epsilon => ret <= t
            /\ ~(0 < ret /\ ret <= Epsilon)
            /\ ret = NoHit \/ ret > Epsilon

\* the origin lies just inside the sphere and the ray leaves it: the only
\* root in front of the origin is within 0.001 of it, and is not returned
C6_Witness ==
    /\ pc = "return"
    /\ ret = NoHit
    /\ LET oc == VSub(arg.ray.origin, arg.s.center)
           b == FMul(IntToF(2), dot(arg.ray.direction, oc))
           c == dot(oc, oc) - FMul(arg.s.radius, arg.s.radius)
           disc == FMul(b, b) - FMul(IntToF(4), c)
       IN  /\ disc >= 0
           /\ FMul(-b + FSqrt(disc), FLit(1, 2)) > 0
           /\ FMul(-b + FSqrt(disc), FLit(1, 2)) <= Epsilon

\* C7: Plane::intersect returns -1 whenever the ray's vertical direction
\* component is zero, or below 1e-6 in absolute value, and then performs no
\* division by it; for every other ray it returns t = (h - origin.y) /
\* direction.y if t > 0.001 and -1 otherwise.
C7_PlaneParallelNoHit ==
    pc = "return" =>
        LET dy == arg.ray.direction.y
        IN  /\ \A k \in DOMAIN ret.divisors : ret.divisors[k] # 0
            /\ FAbs(dy) < ParallelEps =>
                  ret.value = NoHit /\ ret.divisors = << >>
            /\ FAbs(dy) >= ParallelEps =>
                  LET t == FDiv(arg.p.y - arg.ray.origin.y, dy)
                  IN  ret.value = IF t > Epsilon THEN t ELSE NoHit

\* a horizontal ray from an origin off the plane
C7_Witness ==
    /\ pc = "return"
    /\ arg.ray.direction.y = 0
    /\ arg.ray.origin.y # arg.p.y
    /\ ret.value = NoHit

(* The last two resize_callback calls, when there were two *)
Last == hist[Len(hist)]
Before == hist[Len(hist) - 1]

\* C8: a second render pass with unchanged camera, scene and resolution
\* leaves the buffer identical, in length and in every entry, to the buffer
\* after the first pass.
C8_RenderIdempotent ==
    (Len(hist) >= 2 /\ Before.Width = Last.Width /\ Before.Height = Last.Height)
        => /\ Last.OutputImage = Before.OutputImage
           /\ OutputImage = Before.OutputImage

C8_Witness ==
    /\ pc = "poll"
    /\ Len(hist) >= 2
    /\ Before.Width = Last.Width /\ Before.Height = Last.Height
    /\ Len(OutputImage) > 0

\* C9: resize(W0,H0); resize(W1,H1); resize(W0,H0) ends with Width, Height
\* and the buffer equal to their values after the first resize(W0,H0).
C9_ResizeRoundTrip ==
    (Len(hist) = 3 /\ hist[1].Width = hist[3].Width
                   /\ hist[1].Height = hist[3].Height)
        => /\ Width = hist[1].Width
           /\ Height = hist[1].Height
           /\ OutputImage = hist[1].OutputImage

C9_Witness ==
    /\ pc = "poll"
    /\ Len(hist) = 3
    /\ hist[1].Width = hist[3].Width /\ hist[1].Height = hist[3].Height
    /\ hist[2].Width # hist[1].Width /\ hist[2].Height # hist[1].Height
    /\ hist[1].Width # Res

\* C10: whenever the loop presents the buffer with glDrawPixels(Width,
\* Height, GL_RGB, GL_FLOAT, ...), which reads Width*Height*3 floats,
\* OutputImage holds at least that many, so the read stays inside it.
C10_PresentWithinBuffer ==
    pc = "draw" => Len(OutputImage) >= DrawPixelsReads

====
